---- MODULE Spec2Model ----
(***************************************************************************)
(* A model of jaqs/trade/strategy.py: the Strategy base class (sequence    *)
(* ids, place_order, place_batch_order, cancel_order, on_new_day,          *)
(* goal_portfolio) and the AlphaStrategy weight pipeline                   *)
(* (portfolio_construction, optimize_mc, re_weight_suspension,             *)
(* generate_weights_order) with its rebalance cycle                        *)
(* (re_balance_plan_before_open, re_balance_plan_after_open, send_bullets).*)
(*                                                                         *)
(* Python strings are sequences of one-character strings, so that str()    *)
(* and ','.join() are computed and not assumed.  Python floats are exact   *)
(* rationals: a weight map is a numerator per symbol over one common       *)
(* denominator; a denominator of 0 stands for None.                        *)
(***************************************************************************)
EXTENDS Integers, Sequences, FiniteSets, TLC

VARIABLES
    trade_date,     \* Strategy.trade_date
    seq_gen,        \* Strategy.seq_gen: the counter of every key
    task_id_map,    \* Strategy.task_id_map: task id -> list of entrust ids
    pm_orders,      \* the orders the ledger holds (pm.add_order), oldest first
    calls,          \* the ledger and gateway calls of the last handler, in order
    issued,         \* every value _get_next_num has returned, oldest first
    weights,        \* AlphaStrategy.weights
    positions,      \* the ledger's position of every symbol (pm.get_position)
    cash,           \* AlphaStrategy.cash
    position_ratio, \* AlphaStrategy.position_ratio, a rational num / den
    goal_positions, \* AlphaStrategy.goal_positions
    market_value_list,  \* AlphaStrategy.market_value_list
    ret             \* the last handler's call and what it returned or raised

vars == <<trade_date, seq_gen, task_id_map, pm_orders, calls, issued, weights,
          positions, cash, position_ratio, goal_positions, market_value_list, ret>>

\* The state of the Strategy base class, and of the AlphaStrategy on top of it.
orderVars == <<trade_date, seq_gen, task_id_map, pm_orders, calls, issued>>
cycleVars == <<cash, position_ratio, goal_positions, market_value_list>>
alphaVars == <<weights, positions, cycleVars>>

----------------------------------------------------------------------------
\* Bounds of the model.
MaxTasks == 2       \* task ids minted in one behaviour
MaxOrders == 3      \* entrust ids minted in one behaviour
MaxBatch == 3       \* longest list given to place_batch_order

\* Program constants.
IdBase == 10000     \* trade_date * 10000 + seq

Universe == <<"A", "B">>
UniverseSet == {Universe[i] : i \in 1..Len(Universe)}

----------------------------------------------------------------------------
\* Python strings.
EmptyStr == <<>>

DigitChars == <<"0", "1", "2", "3", "4", "5", "6", "7", "8", "9">>

\* str(n) of a non-negative integer: its decimal digits.
RECURSIVE PyStr(_)
PyStr(n) ==
    IF n < 10 THEN <<DigitChars[n + 1]>>
    ELSE PyStr(n \div 10) \o <<DigitChars[(n % 10) + 1]>>

\* sep.join(strs)
RECURSIVE join(_, _)
join(sep, strs) ==
    IF Len(strs) = 0 THEN EmptyStr
    ELSE IF Len(strs) = 1 THEN strs[1]
    ELSE strs[1] \o sep \o join(sep, Tail(strs))

\* bool(s) of a string
bool(s) == Len(s) > 0

\* any(map(lambda s: bool(s), err_msgs))
any_err(err_msgs) == \E i \in 1..Len(err_msgs) : bool(err_msgs[i])

\* The messages the gateway answers with: empty is success.
GwMsgs == {EmptyStr, <<"e">>}

----------------------------------------------------------------------------
\* SequenceGenerator.get_next(key): the key's counter after the call.
Keys == {"task_id", "entrust_no"}

get_next(gen, key) == gen[key] + 1

\* _get_next_num with the date added instead of scaled by 10000.
_get_next_num_add(td, seq) == PyStr(td + IdBase + seq)

\* Strategy._get_next_num, given the value get_next returned.
_get_next_num(td, seq) == PyStr(td * IdBase + seq)

\* One entry of the history of _get_next_num.
IssuedRec(key, td, seq) ==
    [key |-> key, date |-> td, seq |-> seq, id |-> _get_next_num(td, seq)]

\* Order.new_order(symbol, action, price, size, date, time)
new_order(symbol, action, size, date) ==
    [symbol |-> symbol, entrust_action |-> action, entrust_size |-> size,
     entrust_date |-> date, task_id |-> EmptyStr, entrust_no |-> EmptyStr]

NoOrder == new_order("", "", 0, 0)

\* One call a handler makes to the ledger or to the gateway.
PmAddOrder(order) ==
    [target |-> "pm", op |-> "add_order", order |-> order,
     entrust_no |-> order.entrust_no, msg |-> EmptyStr]
GwPlaceOrder(order, msg) ==
    [target |-> "gateway", op |-> "place_order", order |-> order,
     entrust_no |-> order.entrust_no, msg |-> msg]
GwCancelOrder(entrust_no, msg) ==
    [target |-> "gateway", op |-> "cancel_order", order |-> NoOrder,
     entrust_no |-> entrust_no, msg |-> msg]

\* The last handler's call and what it returned: (task_id, err_msg),
\* (result, err_msg), or a raise.
Returned(op, arg, task_id, ok, err_msg) ==
    [op |-> op, arg |-> arg, raised |-> "", task_id |-> task_id, ok |-> ok,
     err_msg |-> err_msg]
Raised(op, arg, exc) ==
    [op |-> op, arg |-> arg, raised |-> exc, task_id |-> EmptyStr, ok |-> FALSE,
     err_msg |-> EmptyStr]

\* defaultdict(list): d[k].append(v)
DictAppend(d, k, v) ==
    IF k \in DOMAIN d THEN [d EXCEPT ![k] = Append(@, v)]
    ELSE d @@ (k :> <<v>>)

\* d.get(k, None) of a defaultdict: the value found (None: known is FALSE)
\* and the dict after the call, which get() leaves as it was.
DictGet(d, k) ==
    [known |-> k \in DOMAIN d,
     value |-> IF k \in DOMAIN d THEN d[k] ELSE <<>>,
     dict |-> d]

----------------------------------------------------------------------------
\* AlphaStrategy.weights: exact rationals, num[s] / den for every symbol s,
\* with nan the symbols whose weight is NaN.  den = 0 marks None.
WeightMap(num, den, nan) == [num |-> num, den |-> den, nan |-> nan]
WeightsNone == WeightMap(<<>>, 0, {})

\* A position of the ledger: get_position gives None when held is FALSE.
NoPosition == [held |-> FALSE, curr_size |-> 0]
Position(curr_size) == [held |-> TRUE, curr_size |-> curr_size]

\* AlphaStrategy.goal_positions: None, or the goals of the last rebalance.
GoalsNone == [is_none |-> TRUE, goals |-> <<>>]
Goals(goals) == [is_none |-> FALSE, goals |-> goals]

\* A position_ratio of num / den.
Ratio(num, den) == [num |-> num, den |-> den]

\* AlphaStrategy.__init__, lines 326-342: cash, position_ratio,
\* goal_positions and market_value_list.
AlphaInit ==
    /\ cash = 0
    /\ position_ratio = Ratio(0, 1)
    /\ goal_positions = GoalsNone
    /\ market_value_list = <<>>

\* Strategy.__init__
StrategyInit ==
    /\ trade_date = 0
    /\ seq_gen = [k \in Keys |-> 0]
    /\ task_id_map = <<>>
    /\ pm_orders = <<>>
    /\ calls = <<>>
    /\ issued = <<>>

\* AlphaStrategy.__init__ on a ledger without positions.
Init ==
    /\ StrategyInit
    /\ AlphaInit
    /\ weights = WeightsNone
    /\ positions = [s \in UniverseSet |-> NoPosition]
    /\ ret = Returned("__init__", <<>>, EmptyStr, TRUE, EmptyStr)

\* on_new_day starting the counters of every key again.
on_new_day_reset(date) ==
    /\ trade_date' = date
    /\ seq_gen' = [k \in Keys |-> 0]
    /\ calls' = <<>>
    /\ ret' = Returned("on_new_day", date, EmptyStr, TRUE, EmptyStr)
    /\ UNCHANGED <<task_id_map, pm_orders, issued, alphaVars>>

\* Strategy.on_new_day
on_new_day(date) ==
    /\ trade_date' = date
    /\ calls' = <<>>
    /\ ret' = Returned("on_new_day", date, EmptyStr, TRUE, EmptyStr)
    /\ UNCHANGED <<seq_gen, task_id_map, pm_orders, issued, alphaVars>>

\* place_order returning the task id whatever the gateway answered.
place_order_result_always_id(task_id, err_msg) == <<task_id, err_msg>>

\* The pair place_order returns after the gateway answered err_msg.
place_order_result(task_id, err_msg) ==
    IF bool(err_msg) THEN <<<<"0">>, err_msg>>
    ELSE <<task_id, err_msg>>

\* The algorithm tested after the ids were minted.
place_order_rejected_after_mint(symbol, algo) ==
    LET task_seq == get_next(seq_gen, "task_id")
        entrust_seq == get_next(seq_gen, "entrust_no")
    IN /\ task_seq <= MaxTasks
       /\ entrust_seq <= MaxOrders
       /\ seq_gen' = [seq_gen EXCEPT !["task_id"] = task_seq, !["entrust_no"] = entrust_seq]
       /\ issued' = issued \o <<IssuedRec("task_id", trade_date, task_seq),
                                IssuedRec("entrust_no", trade_date, entrust_seq)>>
       /\ ret' = Raised("place_order", <<symbol, algo>>, "NotImplementedError")
       /\ calls' = <<>>
       /\ UNCHANGED <<trade_date, task_id_map, pm_orders, alphaVars>>

\* Strategy.place_order, lines 106-107: an algorithm was given.
place_order_rejected(symbol, algo) ==
    /\ ret' = Raised("place_order", <<symbol, algo>>, "NotImplementedError")
    /\ calls' = <<>>
    /\ UNCHANGED <<trade_date, seq_gen, task_id_map, pm_orders, issued, alphaVars>>

\* The entrust id recorded only for an order the gateway accepted.
place_order_map_on_accept(d, order, gw_msg) ==
    IF bool(gw_msg) THEN d ELSE DictAppend(d, order.task_id, order.entrust_no)

\* Strategy.place_order, line 113: the map after the order was recorded.
place_order_map(d, order, gw_msg) == DictAppend(d, order.task_id, order.entrust_no)

\* Strategy.place_order, lines 109-122: the default algorithm.
place_order_accepted(symbol, action, size, algo, gw_msg) ==
    LET task_seq == get_next(seq_gen, "task_id")
        entrust_seq == get_next(seq_gen, "entrust_no")
        order == [new_order(symbol, action, size, trade_date) EXCEPT
                      !.task_id = _get_next_num(trade_date, task_seq),
                      !.entrust_no = _get_next_num(trade_date, entrust_seq)]
    IN /\ task_seq <= MaxTasks
       /\ entrust_seq <= MaxOrders
       /\ seq_gen' = [seq_gen EXCEPT !["task_id"] = task_seq, !["entrust_no"] = entrust_seq]
       /\ issued' = issued \o <<IssuedRec("task_id", trade_date, task_seq),
                                IssuedRec("entrust_no", trade_date, entrust_seq)>>
       /\ task_id_map' = place_order_map(task_id_map, order, gw_msg)
       /\ pm_orders' = Append(pm_orders, order)
       /\ calls' = <<PmAddOrder(order), GwPlaceOrder(order, gw_msg)>>
       /\ LET r == place_order_result(order.task_id, gw_msg)
          IN ret' = Returned("place_order", <<symbol, algo>>, r[1], TRUE, r[2])
       /\ UNCHANGED <<trade_date, alphaVars>>

\* Strategy.place_order; gw_msg is the gateway's answer.
place_order(symbol, action, size, algo, gw_msg) ==
    IF bool(algo)
    THEN place_order_rejected(symbol, algo)
    ELSE place_order_accepted(symbol, action, size, algo, gw_msg)

\* The loop of cancel_order leaving at the first cancel that fails.
cancel_loop_break(entrust_no_list, gw_msgs) ==
    LET failing == {i \in 1..Len(entrust_no_list) : bool(gw_msgs[i])}
        last == IF failing = {} THEN Len(entrust_no_list)
                ELSE CHOOSE i \in failing : \A j \in failing : i <= j
    IN [i \in 1..last |-> GwCancelOrder(entrust_no_list[i], gw_msgs[i])]

\* Strategy.cancel_order, lines 144-147: the gateway calls of the loop over
\* the task's entrust ids; gw_msgs[i] is the gateway's answer to the i-th.
cancel_loop(entrust_no_list, gw_msgs) ==
    [i \in 1..Len(entrust_no_list) |-> GwCancelOrder(entrust_no_list[i], gw_msgs[i])]

\* Strategy.cancel_order, lines 148-151: the pair returned for err_msgs.
cancel_order_result(err_msgs) ==
    IF any_err(err_msgs)
    THEN <<FALSE, join(<<",">>, err_msgs)>>
    ELSE <<TRUE, EmptyStr>>

\* d[k] of a defaultdict(list): a missing key is added with an empty list.
DictGetItem(d, k) ==
    [known |-> TRUE,
     value |-> IF k \in DOMAIN d THEN d[k] ELSE <<>>,
     dict |-> IF k \in DOMAIN d THEN d ELSE d @@ (k :> <<>>)]

\* The lookup of cancel_order written task_id_map[task_id].
cancel_order_lookup_getitem(d, task_id) == DictGetItem(d, task_id)

\* Strategy.cancel_order, line 140: the lookup of the task id.
cancel_order_lookup(d, task_id) == DictGet(d, task_id)

\* Strategy.cancel_order
cancel_order(task_id, gw_msgs) ==
    LET found == cancel_order_lookup(task_id_map, task_id)
        entrust_no_list == found.value
        cs == cancel_loop(entrust_no_list, gw_msgs)
        err_msgs == [i \in 1..Len(cs) |-> cs[i].msg]
        r == cancel_order_result(err_msgs)
    IN /\ Len(gw_msgs) = Len(entrust_no_list)
       /\ task_id_map' = found.dict
       /\ IF ~found.known
          THEN /\ ret' = Returned("cancel_order", task_id, EmptyStr, FALSE,
                                  <<"No task id ">> \o task_id)
               /\ calls' = <<>>
          ELSE /\ calls' = cs
               /\ ret' = Returned("cancel_order", task_id, EmptyStr, r[1], r[2])
       /\ UNCHANGED <<trade_date, seq_gen, pm_orders, issued, alphaVars>>

\* Strategy.place_batch_order, lines 175-184: one pass of the loop body over
\* the handler's local and instance state st.
batch_step(st, order, task_id, td, gw_msg) ==
    LET seq == get_next(st.seq_gen, "entrust_no")
        o == [order EXCEPT !.task_id = task_id, !.entrust_no = _get_next_num(td, seq)]
    IN [seq_gen |-> [st.seq_gen EXCEPT !["entrust_no"] = seq],
        issued |-> Append(st.issued, IssuedRec("entrust_no", td, seq)),
        pm_orders |-> Append(st.pm_orders, o),
        calls |-> st.calls \o <<PmAddOrder(o), GwPlaceOrder(o, gw_msg)>>,
        err_msgs |-> Append(st.err_msgs, gw_msg),
        task_id_map |-> DictAppend(st.task_id_map, o.task_id, o.entrust_no)]

\* The loop of place_batch_order leaving at the first order the gateway rejects.
RECURSIVE batch_loop_break(_, _, _, _, _)
batch_loop_break(st, orders, task_id, td, gw_msgs) ==
    IF Len(orders) = 0 THEN st
    ELSE IF bool(Head(gw_msgs))
    THEN batch_step(st, Head(orders), task_id, td, Head(gw_msgs))
    ELSE batch_loop_break(batch_step(st, Head(orders), task_id, td, Head(gw_msgs)),
                          Tail(orders), task_id, td, Tail(gw_msgs))

\* Strategy.place_batch_order, line 174: the loop over the orders.
RECURSIVE batch_loop(_, _, _, _, _)
batch_loop(st, orders, task_id, td, gw_msgs) ==
    IF Len(orders) = 0 THEN st
    ELSE batch_loop(batch_step(st, Head(orders), task_id, td, Head(gw_msgs)),
                    Tail(orders), task_id, td, Tail(gw_msgs))

\* Strategy.place_batch_order, line 172: the task id of the batch.
batch_task_id == _get_next_num(trade_date, get_next(seq_gen, "task_id"))

\* Strategy.place_batch_order, lines 172-184, as a function of the instance
\* state: the state after the loop.
batch_run(orders, gw_msgs) ==
    LET task_seq == get_next(seq_gen, "task_id")
        st0 == [seq_gen |-> [seq_gen EXCEPT !["task_id"] = task_seq],
                issued |-> Append(issued, IssuedRec("task_id", trade_date, task_seq)),
                pm_orders |-> pm_orders, calls |-> <<>>, err_msgs |-> <<>>,
                task_id_map |-> task_id_map]
    IN batch_loop(st0, orders, batch_task_id, trade_date, gw_msgs)

\* Strategy.place_batch_order, lines 172-184: what a call does to the
\* instance, to the ledger and to the gateway.
batch_effect(orders, gw_msgs) ==
    /\ Len(gw_msgs) = Len(orders)
    /\ get_next(seq_gen, "task_id") <= MaxTasks
    /\ seq_gen["entrust_no"] + Len(orders) <= MaxOrders
    /\ LET st == batch_run(orders, gw_msgs)
       IN /\ seq_gen' = st.seq_gen
          /\ issued' = st.issued
          /\ pm_orders' = st.pm_orders
          /\ calls' = st.calls
          /\ task_id_map' = st.task_id_map

\* Strategy.place_batch_order; gw_msgs[i] is the gateway's answer to orders[i].
place_batch_order(orders, gw_msgs) ==
    /\ batch_effect(orders, gw_msgs)
    /\ ret' = Returned("place_batch_order", orders, batch_task_id, TRUE,
                       join(<<",">>, batch_run(orders, gw_msgs).err_msgs))
    /\ UNCHANGED <<trade_date, alphaVars>>

\* The inputs the handlers are called with.
SeqsUpTo(S, n) == UNION {[1..k -> S] : k \in 0..n}

\* Orders built by the caller of place_batch_order.
BatchOrders == {new_order(s, "Buy", 100, 0) : s \in UniverseSet}

\* The trade dates on_new_day is called with.
TradeDates == {0, 1}

\* The task ids cancel_order is called with: every id handed out, and '0'.
CancelIds ==
    {issued[i].id : i \in {j \in 1..Len(issued) : issued[j].key = "task_id"}}
        \cup {<<"0">>}

Next ==
    \/ \E date \in TradeDates : on_new_day(date)
    \/ \E symbol \in UniverseSet, action \in {"Buy"}, algo \in {EmptyStr, <<"v">>},
          gw_msg \in GwMsgs : place_order(symbol, action, 100, algo, gw_msg)
    \/ \E orders \in SeqsUpTo(BatchOrders, MaxBatch) :
          \E gw_msgs \in [1..Len(orders) -> GwMsgs] : place_batch_order(orders, gw_msgs)
    \/ \E task_id \in CancelIds :
          \E gw_msgs \in SeqsUpTo(GwMsgs, MaxOrders) : cancel_order(task_id, gw_msgs)

Spec == Init /\ [][Next]_vars

----------------------------------------------------------------------------
\* AlphaStrategy: the weight pipeline.

\* Bounds of the inputs.
MaxRaw == 2         \* raw weights are -MaxRaw..MaxRaw over a denominator
MaxSuspLen == 2     \* longest suspensions list

\* Program constants.
Eps8Inv == 100000000    \* 1 / 1e-8, the threshold of lines 427 and 658
LotSize == 100          \* shares per lot, lines 665-668

\* The denominator under which a numerator of 10 is the weight 1e-8.
TinyDen == 10 * Eps8Inv

Abs(x) == IF x < 0 THEN -x ELSE x

\* n / d > 1e-8 and n / d < 1e-8, for d > 0, without the product n * 1e8.
GtEps8(n, d) == n > d \div Eps8Inv
LtEps8(n, d) == n <= (d - 1) \div Eps8Inv

\* np.sum(np.abs(values)) of the values of f over the keys S.
RECURSIVE SumAbs(_, _)
SumAbs(f, S) ==
    IF S = {} THEN 0
    ELSE LET s == CHOOSE x \in S : TRUE
         IN Abs(f[s]) + SumAbs(f, S \ {s})

\* np.min(values) of a NaN-free dict.
np_min(f) == CHOOSE m \in {f[s] : s \in DOMAIN f} : \A s \in DOMAIN f : m <= f[s]

RECURSIVE SumSeq(_)
SumSeq(xs) == IF Len(xs) = 0 THEN 0 ELSE Head(xs) + SumSeq(Tail(xs))

\* Python's == between a str and a float, and x in a list.
Str(s) == [type |-> "str", val |-> s]
Float(n, d) == [type |-> "float", val |-> <<n, d>>]
PyEq(a, b) ==
    IF a.type # b.type THEN FALSE
    ELSE IF a.type = "float" THEN a.val[1] * b.val[2] = b.val[1] * a.val[2]
    ELSE a.val = b.val
PyIn(x, xs) == \E i \in 1..Len(xs) : PyEq(x, xs[i])

\* A suspensions argument: a list of symbols, or None.
Susp(items) == [is_none |-> FALSE, items |-> [i \in 1..Len(items) |-> Str(items[i])]]
SuspNone == [is_none |-> TRUE, items |-> <<>>]

\* round(n / (d * p), 0) of Python 2, halves away from zero, then int();
\* d > 0 and p > 0.  floor(2|n| / (d p)) is taken in two divisions.
PyRound(n, d, p) ==
    LET q == ((((2 * Abs(n)) \div d) \div p) + 1) \div 2
    IN IF n < 0 THEN -q ELSE q

\* What an AlphaStrategy method returned or raised.
AlphaRet(op, arg, raised, goals, cash_left) ==
    [op |-> op, arg |-> arg, raised |-> raised, goals |-> goals, cash_left |-> cash_left]

\* AlphaStrategy.equal_weight
equal_weight == WeightMap([s \in UniverseSet |-> 1], Len(Universe), {})

\* delta without the abs().
pc_delta_signed(w_min) == 2 * w_min

\* portfolio_construction, line 422
pc_delta(w_min) == 2 * Abs(w_min)

\* portfolio_construction, lines 421-428, on the raw weights of the method.
\* With a NaN among them np.min, delta and the sum are NaN: the NaN weights
\* become 0.0, every other weight becomes NaN, and nothing is divided.
pc_weights(raw) ==
    IF raw.nan # {}
    THEN WeightMap([s \in DOMAIN raw.num |-> 0], 1, (DOMAIN raw.num) \ raw.nan)
    ELSE LET w_min == np_min(raw.num)
             delta == pc_delta(w_min)
             shifted == [s \in DOMAIN raw.num |-> raw.num[s] + delta]
             w_sum == SumAbs(shifted, DOMAIN shifted)
         IN IF GtEps8(w_sum, raw.den)
            THEN WeightMap(shifted, w_sum, {})
            ELSE WeightMap(shifted, raw.den, {})

\* AlphaStrategy.portfolio_construction with equal_weight or
\* factor_value_weight active; forecast_dic is the revenue model's answer.
portfolio_construction(method, forecast_dic) ==
    LET raw == IF method = "equal_weight" THEN equal_weight ELSE forecast_dic
    IN /\ weights' = pc_weights(raw)
       /\ ret' = AlphaRet("portfolio_construction", raw, "", <<>>, 0)
       /\ UNCHANGED <<orderVars, positions, cycleVars>>

\* re_weight_suspension, line 503: the weights with the suspended ones zeroed.
rw_zeroed(w, suspensions) ==
    [s \in DOMAIN w.num |->
        IF s \notin w.nan /\ PyIn(Float(w.num[s], w.den), suspensions.items)
        THEN 0 ELSE w.num[s]]

\* re_weight_suspension, lines 503-508: the weights it stores.
rw_weights(w, suspensions) ==
    LET zeroed == rw_zeroed(w, suspensions)
        weights_sum == SumAbs(zeroed, DOMAIN zeroed)
    IN IF w.nan = {} /\ weights_sum > 0
       THEN WeightMap(zeroed, weights_sum, {})
       ELSE WeightMap(zeroed, w.den, w.nan)

\* AlphaStrategy.re_weight_suspension as a function of the stored weights:
\* what it raises, and the weights stored after it.
rw_result(w, suspensions) ==
    IF suspensions.is_none \/ Len(suspensions.items) = 0
    THEN [raised |-> "", weights |-> w]
    ELSE IF Len(suspensions.items) = Len(Universe)
    THEN [raised |-> "ValueError", weights |-> w]
    ELSE IF w = WeightsNone
    THEN [raised |-> "AttributeError", weights |-> w]
    ELSE [raised |-> "", weights |-> rw_weights(w, suspensions)]

\* AlphaStrategy.re_weight_suspension
re_weight_suspension(suspensions) ==
    /\ UNCHANGED <<orderVars, positions, cycleVars>>
    /\ ret' = AlphaRet("re_weight_suspension", suspensions,
                       rw_result(weights, suspensions).raised, <<>>, 0)
    /\ weights' = rw_result(weights, suspensions).weights

\* A suspended symbol given the goal size 0.
gwo_suspended_size_zero(current_pos) == 0

\* generate_weights_order, lines 656-657: the goal size of a suspended symbol.
gwo_suspended_size(current_pos) ==
    IF current_pos.held THEN current_pos.curr_size ELSE 0

\* shares rounded up to the next whole lot, away from zero.
gwo_shares_ceil(num, den, turnover, price) ==
    LET x == Abs(num * turnover)
        q == IF x = 0 THEN 0 ELSE (((x - 1) \div den) \div (price * LotSize)) + 1
    IN IF num * turnover < 0 THEN -q ELSE q

\* shares by int() alone, truncating, without round().
gwo_shares_trunc(num, den, turnover, price) ==
    LET q == ((Abs(num * turnover)) \div den) \div (price * LotSize)
    IN IF num * turnover < 0 THEN -q ELSE q

\* generate_weights_order, lines 663-665: shares of the weight num / den.
gwo_shares(num, den, turnover, price) == PyRound(num * turnover, den, price * LotSize)

\* cash_used without the lot factor.
gwo_cash_no_lot(shares, price) == shares * price

\* generate_weights_order, line 668: the cash the shares commit.
gwo_cash(shares, price) == shares * price * LotSize

\* generate_weights_order, lines 655-675: the goal of one symbol, the cash it
\* commits and what it raises (int() of a NaN raises ValueError).
gwo_goal(sec, w, turnover, prices, suspensions, pos) ==
    IF PyIn(Str(sec), suspensions.items)
    THEN [symbol |-> sec, size |-> gwo_suspended_size(pos[sec]), cash |-> 0, raised |-> ""]
    ELSE IF sec \in w.nan
    THEN [symbol |-> sec, size |-> 0, cash |-> 0, raised |-> "ValueError"]
    ELSE IF LtEps8(Abs(w.num[sec]), w.den)
    THEN [symbol |-> sec, size |-> 0, cash |-> 0, raised |-> ""]
    ELSE LET shares == gwo_shares(w.num[sec], w.den, turnover, prices[sec])
         IN [symbol |-> sec, size |-> shares, cash |-> gwo_cash(shares, prices[sec]),
             raised |-> ""]

\* AlphaStrategy.generate_weights_order as a function of its arguments and of
\* the ledger; the dict is walked in the order of the universe.
generate_weights_order(weights_dic, turnover, prices, algo, suspensions, pos) ==
    LET arg == [weights_dic |-> weights_dic, turnover |-> turnover, prices |-> prices,
                algo |-> algo, suspensions |-> suspensions]
        per == [i \in 1..Len(Universe) |->
                    gwo_goal(Universe[i], weights_dic, turnover, prices, suspensions, pos)]
        failing == {i \in 1..Len(Universe) : per[i].raised # ""}
        goals == [i \in 1..Len(Universe) |-> [symbol |-> per[i].symbol, size |-> per[i].size]]
        cash_used == SumSeq([i \in 1..Len(Universe) |-> per[i].cash])
    IN IF algo \notin {"close", "vwap"}
       THEN AlphaRet("generate_weights_order", arg, "NotImplementedError", <<>>, 0)
       ELSE IF weights_dic = WeightsNone
       THEN AlphaRet("generate_weights_order", arg, "AttributeError", <<>>, 0)
       ELSE IF suspensions.is_none
       THEN AlphaRet("generate_weights_order", arg, "TypeError", <<>>, 0)
       ELSE IF failing # {}
       THEN AlphaRet("generate_weights_order", arg,
                     per[CHOOSE i \in failing : \A j \in failing : i <= j].raised, <<>>, 0)
       ELSE AlphaRet("generate_weights_order", arg, "", goals, turnover - cash_used)

\* generate_weights_order storing its result in the instance itself, as
\* lines 584-585 of its caller do.
call_generate_weights_order_stores(turnover, prices, algo, suspensions) ==
    LET g == generate_weights_order(weights, turnover, prices, algo, suspensions, positions)
    IN /\ ret' = g
       /\ goal_positions' = IF g.raised = "" THEN Goals(g.goals) ELSE goal_positions
       /\ cash' = IF g.raised = "" THEN g.cash_left ELSE cash
       /\ UNCHANGED <<orderVars, weights, positions, position_ratio, market_value_list>>

\* A call of generate_weights_order on the stored weights, as in line 582.
call_generate_weights_order(turnover, prices, algo, suspensions) ==
    /\ ret' = generate_weights_order(weights, turnover, prices, algo, suspensions, positions)
    /\ UNCHANGED <<orderVars, weights, positions, cycleVars>>

\* The inputs.  Raw weights: the answers of a revenue model.
RawMaps ==
    {WeightMap(num, den, nan) :
        num \in [UniverseSet -> -MaxRaw..MaxRaw], den \in {10, TinyDen},
        nan \in {{}, {Universe[1]}, UniverseSet}}

\* Weight maps given to generate_weights_order: weights of -0.2 .. 0.8, and
\* weights below and at 1e-8.
WeightInputs ==
    {WeightMap(num, 10, nan) :
        num \in [UniverseSet -> {-2, 0, 2, 5, 8}], nan \in {{}, {Universe[2]}}}
        \cup {WeightMap(num, TinyDen, {}) : num \in [UniverseSet -> {0, 9, 10}]}
        \cup {WeightsNone}

PositionInputs == [UniverseSet -> {NoPosition, Position(50)}]

\* Suspensions lists, with duplicates and with symbols outside the universe.
SuspInputs ==
    {Susp(items) : items \in SeqsUpTo(UniverseSet \cup {"Z"}, MaxSuspLen)} \cup {SuspNone}

\* Suspensions given to generate_weights_order.
GwoSuspInputs ==
    {Susp(items) : items \in {<<>>, <<"A">>, <<"B">>, <<"B", "A">>, <<"Z">>, <<"Z", "A">>}}
        \cup {SuspNone}

Turnovers == {0, 1500, 10000}

PriceInputs == {[s \in UniverseSet |-> IF s = Universe[1] THEN 10 ELSE 20],
                [s \in UniverseSet |-> 5]}

\* portfolio_construction and re_weight_suspension from a new AlphaStrategy.
InitWeights ==
    /\ StrategyInit
    /\ AlphaInit
    /\ weights = WeightsNone
    /\ positions = [s \in UniverseSet |-> NoPosition]
    /\ ret = AlphaRet("__init__", <<>>, "", <<>>, 0)

NextWeights ==
    \/ portfolio_construction("equal_weight", equal_weight)
    \/ \E forecast_dic \in RawMaps : portfolio_construction("factor_value_weight", forecast_dic)
    \/ \E suspensions \in SuspInputs : re_weight_suspension(suspensions)

SpecWeights == InitWeights /\ [][NextWeights]_vars

\* generate_weights_order on every weight map and ledger of the inputs.
InitAlloc ==
    /\ StrategyInit
    /\ AlphaInit
    /\ weights \in WeightInputs
    /\ positions \in PositionInputs
    /\ ret = AlphaRet("__init__", <<>>, "", <<>>, 0)

NextAlloc ==
    \E turnover \in Turnovers, prices \in PriceInputs, algo \in {"close", "vwap", "open"},
       suspensions \in GwoSuspInputs :
        call_generate_weights_order(turnover, prices, algo, suspensions)

SpecAlloc == InitAlloc /\ [][NextAlloc]_vars

----------------------------------------------------------------------------
\* AlphaStrategy: the rebalance cycle of a trading date.

\* Bound of the cycle.
MaxCycles == 2      \* entries of market_value_list in one behaviour

\* AlphaStrategy.init_from_config, lines 347-350: cash and position_ratio
\* from the configuration.
init_from_config(init_balance, ratio) ==
    /\ cash = init_balance
    /\ position_ratio = ratio

\* AlphaStrategy.re_balance_plan_before_open: portfolio_construction with
\* equal_weight or factor_value_weight active.
re_balance_plan_before_open(method, forecast_dic) ==
    LET raw == IF method = "equal_weight" THEN equal_weight ELSE forecast_dic
    IN /\ weights' = pc_weights(raw)
       /\ ret' = AlphaRet("re_balance_plan_before_open", raw, "", <<>>, 0)
       /\ UNCHANGED <<orderVars, positions, cycleVars>>

\* re_balance_plan_after_open, lines 576-579: the cash to allocate.
rb_cash_use(cash_available, ratio) == (cash_available * ratio.num) \div ratio.den

\* AlphaStrategy.re_balance_plan_after_open; market_value is the ledger's
\* answer to pm.market_value.  set(None) of line 565 raises TypeError.
re_balance_plan_after_open(prices, suspensions, market_value) ==
    LET arg == [prices |-> prices, suspensions |-> suspensions,
                market_value |-> market_value]
        rw == rw_result(weights, suspensions)
        cash_available == cash + market_value
        cash_use == rb_cash_use(cash_available, position_ratio)
        cash_unuse == cash_available - cash_use
        g == generate_weights_order(rw.weights, cash_use, prices, "close", suspensions,
                                    positions)
    IN /\ UNCHANGED <<orderVars, positions, position_ratio>>
       /\ IF suspensions.is_none
          THEN /\ ret' = AlphaRet("re_balance_plan_after_open", arg, "TypeError", <<>>, 0)
               /\ UNCHANGED <<weights, cash, goal_positions, market_value_list>>
          ELSE IF rw.raised # ""
          THEN /\ ret' = AlphaRet("re_balance_plan_after_open", arg, rw.raised, <<>>, 0)
               /\ UNCHANGED <<weights, cash, goal_positions, market_value_list>>
          ELSE /\ Len(market_value_list) < MaxCycles
               /\ weights' = rw.weights
               /\ market_value_list' = Append(market_value_list, <<trade_date, market_value>>)
               /\ IF g.raised # ""
                  THEN /\ ret' = AlphaRet("re_balance_plan_after_open", arg, g.raised, <<>>, 0)
                       /\ UNCHANGED <<cash, goal_positions>>
                  ELSE /\ goal_positions' = Goals(g.goals)
                       /\ cash' = g.cash_left + cash_unuse
                       /\ ret' = AlphaRet("re_balance_plan_after_open", arg, "", g.goals,
                                          g.cash_left)

\* FixedPriceTypeOrder.new_order of goal_portfolio, lines 232-233.
gp_order(sec, action, size, date) ==
    new_order(sec, action, size, date) @@ [price_target |-> "vwap"]

\* diff_size taken against an empty ledger.
gp_diff_size_unheld(goal, pos) == goal.size

\* goal_portfolio, lines 224-228: goal size less the size held.
gp_diff_size(goal, pos) ==
    LET curr_size == IF goal.symbol \in DOMAIN pos /\ pos[goal.symbol].held
                     THEN pos[goal.symbol].curr_size ELSE 0
    IN goal.size - curr_size

\* goal_portfolio, lines 221-235: the orders of the goals.
RECURSIVE gp_orders(_, _, _)
gp_orders(goals, pos, date) ==
    IF Len(goals) = 0 THEN <<>>
    ELSE LET goal == Head(goals)
             diff_size == gp_diff_size(goal, pos)
             action == IF diff_size > 0 THEN "Buy" ELSE "Sell"
             rest == gp_orders(Tail(goals), pos, date)
         IN IF diff_size # 0
            THEN <<gp_order(goal.symbol, action, Abs(diff_size), date)>> \o rest
            ELSE rest

\* Strategy.goal_portfolio; goals is a list of goals or None, gw_msgs the
\* gateway's answers.  len(None) raises TypeError, and line 219 asserts.
goal_portfolio(goals, gw_msgs) ==
    IF goals.is_none \/ Len(goals.goals) # Len(Universe)
    THEN /\ Len(gw_msgs) = 0
         /\ ret' = Raised("goal_portfolio", goals,
                          IF goals.is_none THEN "TypeError" ELSE "AssertionError")
         /\ calls' = <<>>
         /\ UNCHANGED <<trade_date, seq_gen, task_id_map, pm_orders, issued, alphaVars>>
    ELSE /\ batch_effect(gp_orders(goals.goals, positions, trade_date), gw_msgs)
         /\ ret' = Returned("goal_portfolio", goals, EmptyStr, TRUE, EmptyStr)
         /\ UNCHANGED <<trade_date, alphaVars>>

\* AlphaStrategy.send_bullets
send_bullets(gw_msgs) == goal_portfolio(goal_positions, gw_msgs)

\* The inputs of the cycle.
InitBalances == {10000}
Ratios == {Ratio(1, 2), Ratio(1, 1)}
MarketValues == {0, 1000}
CyclePrices == {[s \in UniverseSet |-> IF s = Universe[1] THEN 10 ELSE 20]}
CycleForecasts == {WeightMap([s \in UniverseSet |-> IF s = Universe[1] THEN 2 ELSE 8], 10, {})}
CycleSuspInputs ==
    {Susp(items) : items \in {<<>>, <<"A">>, <<"A", "B">>, <<"A", "B", "Z">>}} \cup {SuspNone}
CycleLedgers ==
    {[s \in UniverseSet |-> IF s = Universe[1] THEN NoPosition ELSE Position(50)]}

\* An AlphaStrategy after init_from_config, on a ledger with positions.
InitCycle ==
    /\ StrategyInit
    /\ \E init_balance \in InitBalances, ratio \in Ratios :
          init_from_config(init_balance, ratio)
    /\ goal_positions = GoalsNone
    /\ market_value_list = <<>>
    /\ weights = WeightsNone
    /\ positions \in CycleLedgers
    /\ ret = AlphaRet("init_from_config", <<>>, "", <<>>, 0)

NextCycle ==
    \/ \E date \in TradeDates : on_new_day(date)
    \/ \E method \in {"equal_weight", "factor_value_weight"}, forecast_dic \in CycleForecasts :
          re_balance_plan_before_open(method, forecast_dic)
    \/ \E prices \in CyclePrices, suspensions \in CycleSuspInputs,
          market_value \in MarketValues :
          re_balance_plan_after_open(prices, suspensions, market_value)
    \/ \E gw_msgs \in SeqsUpTo(GwMsgs, Len(Universe)) : send_bullets(gw_msgs)

SpecCycle == InitCycle /\ [][NextCycle]_vars

\* goal_portfolio on every ledger and list of goals of the inputs.
GoalInputs ==
    {Goals([i \in 1..Len(Universe) |-> [symbol |-> Universe[i], size |-> size[i]]]) :
        size \in [1..Len(Universe) -> {0, 50, 70}]}
        \cup {Goals(<<[symbol |-> Universe[1], size |-> 70]>>), GoalsNone}

InitGoal ==
    /\ StrategyInit
    /\ AlphaInit
    /\ weights = WeightsNone
    /\ positions \in PositionInputs
    /\ ret = Returned("__init__", <<>>, EmptyStr, TRUE, EmptyStr)

NextGoal ==
    \/ \E date \in TradeDates : on_new_day(date)
    \/ \E goals \in GoalInputs :
          \E gw_msgs \in SeqsUpTo(GwMsgs, Len(Universe)) : goal_portfolio(goals, gw_msgs)

SpecGoal == InitGoal /\ [][NextGoal]_vars

----------------------------------------------------------------------------
\* AlphaStrategy.optimize_mc: the Monte Carlo search.

\* Bound of the inputs.
MaxUtil == 1        \* utilities are -MaxUtil - 1 .. MaxUtil, in units of 1e30

\* Program constants.
NExp == 5           \* n_exp, line 464
MinFInit == 1       \* min_f = 1e30 of line 470, in units of 1e30

\* optimize_mc, line 468: a row of the random matrix divided by its sum.
mc_normalize(row) == WeightMap([s \in UniverseSet |-> row[s]], SumAbs(row, UniverseSet), {})

\* No candidate found: min_weights is None.
McNone == [is_none |-> TRUE, index |-> 0, weights |-> WeightsNone]

\* The test of the loop with <= for <.
mc_better_or_equal(f, min_f) == f <= min_f

\* optimize_mc, line 475
mc_better(f, min_f) == f < min_f

\* optimize_mc, lines 472-477: the loop from experiment i on; utils[i] is
\* what util_func returns for the candidate of row i.
RECURSIVE mc_loop(_, _, _, _)
mc_loop(st, weights_mat, utils, i) ==
    IF i > NExp THEN st
    ELSE LET w == mc_normalize(weights_mat[i])
             f == -utils[i]
             next == IF mc_better(f, st.min_f)
                     THEN [min_f |-> f,
                           min_weights |-> [is_none |-> FALSE, index |-> i, weights |-> w],
                           evals |-> st.evals + 1]
                     ELSE [st EXCEPT !.evals = @ + 1]
         IN mc_loop(next, weights_mat, utils, i + 1)

\* optimize_mc, lines 479-482: '{:.2e}'.format(1e30) is 1.00e+30.
mc_msg(min_weights) ==
    IF min_weights.is_none
    THEN <<"No weights can make f > 1.00e+30 found in this search">>
    ELSE EmptyStr

\* AlphaStrategy.optimize_mc; weights_mat is the draw of np.random.rand.
optimize_mc(weights_mat, utils) ==
    LET st == mc_loop([min_f |-> MinFInit, min_weights |-> McNone, evals |-> 0],
                      weights_mat, utils, 1)
    IN /\ ret' = [op |-> "optimize_mc", arg |-> [weights_mat |-> weights_mat, utils |-> utils],
                  raised |-> "", min_weights |-> st.min_weights,
                  msg |-> mc_msg(st.min_weights), evals |-> st.evals]
       /\ UNCHANGED <<orderVars, alphaVars>>

\* The inputs: one draw of the matrix, and every utility of the candidates.
McDraws == {[i \in 1..NExp |-> [s \in UniverseSet |-> IF s = Universe[1] THEN i ELSE 1]]}
UtilInputs == [1..NExp -> (-MaxUtil - 1)..MaxUtil]

\* optimize_mc on every draw and utility of the inputs: the models behind
\* util_func are set up before the call.
McSetup(weights_mat, utils) ==
    [op |-> "register_pc_method", arg |-> [weights_mat |-> weights_mat, utils |-> utils],
     raised |-> ""]

InitMC ==
    /\ StrategyInit
    /\ AlphaInit
    /\ weights = WeightsNone
    /\ positions = [s \in UniverseSet |-> NoPosition]
    /\ \E weights_mat \in McDraws, utils \in UtilInputs : ret = McSetup(weights_mat, utils)

NextMC ==
    \E weights_mat \in McDraws, utils \in UtilInputs :
        /\ ret = McSetup(weights_mat, utils)
        /\ optimize_mc(weights_mat, utils)

SpecMC == InitMC /\ [][NextMC]_vars

----------------------------------------------------------------------------
\* The identifiers of a long-lived instance: on_new_day and _get_next_num
\* alone, the counters starting either at construction or two calls before
\* they reach 10000.
MaxMints == 4       \* calls of _get_next_num in one behaviour

\* One call of Strategy._get_next_num(key).
call_get_next_num(key) ==
    /\ Len(issued) < MaxMints
    /\ seq_gen' = [seq_gen EXCEPT ![key] = get_next(seq_gen, key)]
    /\ issued' = Append(issued, IssuedRec(key, trade_date, get_next(seq_gen, key)))
    /\ ret' = Returned("_get_next_num", key,
                       _get_next_num(trade_date, get_next(seq_gen, key)), TRUE, EmptyStr)
    /\ UNCHANGED <<trade_date, task_id_map, pm_orders, calls, alphaVars>>

\* The counters of an instance that made that many calls of get_next before.
SeqStarts == {0, IdBase - 2}
IdDates == 0..2

InitIds ==
    /\ trade_date = 0
    /\ seq_gen \in [Keys -> SeqStarts]
    /\ task_id_map = <<>>
    /\ pm_orders = <<>>
    /\ calls = <<>>
    /\ issued = <<>>
    /\ AlphaInit
    /\ weights = WeightsNone
    /\ positions = [s \in UniverseSet |-> NoPosition]
    /\ ret = Returned("__init__", <<>>, EmptyStr, TRUE, EmptyStr)

NextIds ==
    \/ \E date \in IdDates : on_new_day(date)
    \/ \E key \in Keys : call_get_next_num(key)

SpecIds == InitIds /\ [][NextIds]_vars

----------------------------------------------------------------------------
\* Helpers of the properties below.

\* The entries of s between the separators: the inverse of join.
RECURSIVE Split(_, _)
Split(s, sep) ==
    IF \A i \in 1..Len(s) : s[i] # sep THEN <<s>>
    ELSE LET i == CHOOSE k \in 1..Len(s) :
                      s[k] = sep /\ \A j \in 1..(k - 1) : s[j] # sep
         IN <<SubSeq(s, 1, i - 1)>> \o Split(SubSeq(s, i + 1, Len(s)), sep)

\* The history of _get_next_num for one key.
IssuedOf(key) == SelectSeq(issued, LAMBDA r : r.key = key)

LastOf(seq) == seq[Len(seq)]

\* The answers of the gateway in the calls of the last handler, in call order.
GatewayCalls == SelectSeq(calls, LAMBDA c : c.target = "gateway")
GatewayMsgs == [i \in 1..Len(GatewayCalls) |-> GatewayCalls[i].msg]
LedgerCalls == SelectSeq(calls, LAMBDA c : c.target = "pm")

NonEmptyCount(strs) == Cardinality({i \in 1..Len(strs) : bool(strs[i])})

----------------------------------------------------------------------------
\* C6: ids minted for one key on one trade date are pairwise different, every
\* id is str(trade_date * 10000 + seq), and the seq values of a key are
\* 1, 2, 3, ... without repeats or gaps; the k-th order registered carries
\* the k-th entrust id and the id of a minted task.
C6_IdsUniquePerDay ==
    /\ \A i, j \in 1..Len(issued) :
          (i < j /\ issued[i].key = issued[j].key /\ issued[i].date = issued[j].date)
              => issued[i].id # issued[j].id
    /\ \A i \in 1..Len(issued) :
          issued[i].id = PyStr(issued[i].date * 10000 + issued[i].seq)
    /\ \A key \in Keys :
          /\ \A k \in 1..Len(IssuedOf(key)) : IssuedOf(key)[k].seq = k
          /\ seq_gen[key] = Len(IssuedOf(key))
    /\ Len(pm_orders) = Len(IssuedOf("entrust_no"))
    /\ \A k \in 1..Len(pm_orders) :
          /\ pm_orders[k].entrust_no = IssuedOf("entrust_no")[k].id
          /\ \E t \in 1..Len(IssuedOf("task_id")) :
                pm_orders[k].task_id = IssuedOf("task_id")[t].id

\* Two tasks and two orders minted on trade date 1, after on_new_day(1).
C6_Witness ==
    /\ \E i, j \in 1..Len(issued) :
          i < j /\ issued[i].key = "task_id" /\ issued[j].key = "task_id"
                /\ issued[i].date = 1 /\ issued[j].date = 1
    /\ \E i, j \in 1..Len(issued) :
          i < j /\ issued[i].key = "entrust_no" /\ issued[j].key = "entrust_no"
                /\ issued[i].date = 1 /\ issued[j].date = 1

C8_CancelAll ==
    (ret.op = "cancel_order" /\ ret.arg \in DOMAIN task_id_map)
        => LET entrust_no_list == task_id_map[ret.arg]
           IN /\ Len(calls) = Len(entrust_no_list)
              /\ \A i \in 1..Len(calls) :
                    /\ calls[i].target = "gateway"
                    /\ calls[i].op = "cancel_order"
                    /\ calls[i].entrust_no = entrust_no_list[i]
              /\ ret.ok = (\A i \in 1..Len(calls) : calls[i].msg = EmptyStr)
              /\ ret.ok => ret.err_msg = EmptyStr
              /\ ~ret.ok => /\ Split(ret.err_msg, ",") = GatewayMsgs
                            /\ Len(Split(ret.err_msg, ",")) = Len(entrust_no_list)
              /\ (Len(entrust_no_list) = 3 /\ NonEmptyCount(GatewayMsgs) = 1)
                    => /\ ~ret.ok
                       /\ NonEmptyCount(Split(ret.err_msg, ",")) = 1

\* A task of 3 orders whose first cancel failed and whose other two succeeded.
C8_Witness ==
    /\ ret.op = "cancel_order" /\ ret.arg \in DOMAIN task_id_map
    /\ Len(calls) = 3
    /\ bool(calls[1].msg) /\ ~bool(calls[2].msg) /\ ~bool(calls[3].msg)
    /\ ~ret.ok

\* C9: a cancel_order step with a task id that is not a key of task_id_map
\* returns failure with the unknown-task message, calls the gateway not once,
\* and leaves task_id_map as it was, without the id.
C9_UnknownTask ==
    [][(ret'.op = "cancel_order" /\ ret'.arg \notin DOMAIN task_id_map)
          => /\ ret'.ok = FALSE
             /\ ret'.err_msg = <<"No task id ">> \o ret'.arg
             /\ calls' = <<>>
             /\ task_id_map' = task_id_map
             /\ ret'.arg \notin DOMAIN task_id_map']_vars

\* cancel_order answered an id that was never a task while a task is known.
C9_Witness ==
    /\ ret.op = "cancel_order" /\ ret.arg \notin DOMAIN task_id_map
    /\ ~ret.ok
    /\ DOMAIN task_id_map # {}

\* C10: place_batch_order stamps every order of the list with the one task
\* id it returns and with entrust ids that differ, registers and submits them
\* one after the other in list order whatever the gateway answers, records
\* the entrust ids under the task in list order, and returns the answers
\* joined in list order.
C10_BatchOrder ==
    (ret.op = "place_batch_order")
        => LET orders == ret.arg
               n == Len(orders)
               stamped == SubSeq(pm_orders, Len(pm_orders) - n + 1, Len(pm_orders))
           IN /\ Len(pm_orders) >= n
              /\ Len(calls) = 2 * n
              /\ \A i \in 1..n :
                    /\ stamped[i].task_id = ret.task_id
                    /\ [stamped[i] EXCEPT !.task_id = EmptyStr, !.entrust_no = EmptyStr]
                           = orders[i]
                    /\ calls[2 * i - 1] = PmAddOrder(stamped[i])
                    /\ calls[2 * i].target = "gateway"
                    /\ calls[2 * i].op = "place_order"
                    /\ calls[2 * i].order = stamped[i]
              /\ \A i, j \in 1..n : i # j => stamped[i].entrust_no # stamped[j].entrust_no
              /\ n > 0 => /\ ret.task_id \in DOMAIN task_id_map
                          /\ task_id_map[ret.task_id] = [i \in 1..n |-> stamped[i].entrust_no]
                          /\ Split(ret.err_msg, ",") = GatewayMsgs
              /\ n = 0 => ret.err_msg = EmptyStr
              /\ ret.task_id = LastOf(IssuedOf("task_id")).id

\* A batch of 3 orders whose first order the gateway rejected and whose
\* other two it accepted.
C10_Witness ==
    /\ ret.op = "place_batch_order"
    /\ Len(ret.arg) = 3
    /\ Len(calls) = 6
    /\ bool(calls[2].msg) /\ ~bool(calls[4].msg) /\ ~bool(calls[6].msg)
    /\ ret.arg[1].symbol # ret.arg[2].symbol

----------------------------------------------------------------------------
\* Helpers of the properties of generate_weights_order: the last call
\* returned; the symbol of goal i is suspended; it is traded, that is not
\* suspended and of |weight| >= 1e-8.
GwoReturned == ret.op = "generate_weights_order" /\ ret.raised = ""
GwoSuspended(sec) ==
    \E k \in 1..Len(ret.arg.suspensions.items) : ret.arg.suspensions.items[k].val = sec
GwoTraded(i) ==
    /\ ~GwoSuspended(ret.goals[i].symbol)
    /\ Abs(ret.arg.weights_dic.num[ret.goals[i].symbol]) * Eps8Inv >= ret.arg.weights_dic.den

\* weight * budget, over the denominator of the weights, for goal i.
GwoNum(i) == ret.arg.weights_dic.num[ret.goals[i].symbol] * ret.arg.turnover
GwoPrice(i) == ret.arg.prices[ret.goals[i].symbol]

\* k is n / (d * p * 100) rounded to the nearest integer, halves away from 0.
IsRoundedLots(k, n, d, p) ==
    /\ k = 0 \/ ((k > 0) = (n > 0))
    /\ (100 * Abs(k) - 50) * p <= Abs(n) \div d
    /\ Abs(n) \div d < (100 * Abs(k) + 50) * p

\* C1 as stated: the goal size of every traded symbol is a multiple of 100.
C1_SizeMultipleOfLot ==
    GwoReturned => \A i \in 1..Len(ret.goals) : GwoTraded(i) => ret.goals[i].size % 100 = 0

\* C1 as amended: the goal size of every traded symbol is a number of lots,
\* and 100 * size is a multiple of 100 nearest to weight * budget / price:
\* the two differ by 50 shares at most.
C1_NearestLot ==
    GwoReturned =>
        \A i \in 1..Len(ret.goals) :
            GwoTraded(i) =>
                LET size == ret.goals[i].size
                    den == ret.arg.weights_dic.den
                IN /\ (100 * size - 50) * GwoPrice(i) <= GwoNum(i) \div den
                   /\ -((-GwoNum(i)) \div den) <= (100 * size + 50) * GwoPrice(i)

\* A traded symbol whose goal is 2 lots, and one rounded up from 0.6 lots.
C1_Witness ==
    /\ GwoReturned
    /\ \E i \in 1..Len(ret.goals) : GwoTraded(i) /\ ret.goals[i].size = 2
    /\ \E i \in 1..Len(ret.goals) :
          /\ GwoTraded(i) /\ ret.goals[i].size = 1
          /\ GwoNum(i) = 2 * 1500 /\ GwoPrice(i) = 5 /\ ret.arg.weights_dic.den = 10

\* C3 as stated: every traded symbol gets the size 100 * round(weight *
\* budget / price / 100), and cash_left is the budget less size * price
\* summed over the traded symbols.
C3_SharesAndCash ==
    GwoReturned =>
        /\ \A i \in 1..Len(ret.goals) :
              GwoTraded(i) =>
                  /\ ret.goals[i].size % 100 = 0
                  /\ IsRoundedLots(ret.goals[i].size \div 100, GwoNum(i),
                                   ret.arg.weights_dic.den, GwoPrice(i))
        /\ ret.cash_left = ret.arg.turnover -
              SumSeq([i \in 1..Len(ret.goals) |->
                         IF GwoTraded(i) THEN ret.goals[i].size * GwoPrice(i) ELSE 0])

\* C3 as amended: every traded symbol gets the size round(weight * budget /
\* price / 100), a number of lots, and cash_left is the budget less
\* size * 100 * price summed over the traded symbols; weights {A: 0.2,
\* B: 0.8}, prices {A: 10, B: 20}, budget 10000 and no suspensions give the
\* sizes 2 and 4 and cash_left 0.
C3_LotsAndCash ==
    GwoReturned =>
        /\ \A i \in 1..Len(ret.goals) :
              GwoTraded(i) =>
                  IsRoundedLots(ret.goals[i].size, GwoNum(i),
                                ret.arg.weights_dic.den, GwoPrice(i))
        /\ ret.cash_left = ret.arg.turnover -
              SumSeq([i \in 1..Len(ret.goals) |->
                         IF GwoTraded(i) THEN ret.goals[i].size * 100 * GwoPrice(i) ELSE 0])
        /\ (/\ ret.arg.weights_dic = WeightMap([s \in UniverseSet |->
                                                   IF s = "A" THEN 2 ELSE 8], 10, {})
            /\ ret.arg.prices = [s \in UniverseSet |-> IF s = "A" THEN 10 ELSE 20]
            /\ ret.arg.turnover = 10000
            /\ ret.arg.suspensions = Susp(<<>>))
              => /\ ret.goals = <<[symbol |-> "A", size |-> 2], [symbol |-> "B", size |-> 4]>>
                 /\ ret.cash_left = 0

\* The call of the example, and its result.
C3_Witness ==
    /\ GwoReturned
    /\ ret.arg.weights_dic = WeightMap([s \in UniverseSet |-> IF s = "A" THEN 2 ELSE 8], 10, {})
    /\ ret.arg.prices = [s \in UniverseSet |-> IF s = "A" THEN 10 ELSE 20]
    /\ ret.arg.turnover = 10000
    /\ ret.arg.suspensions = Susp(<<>>)
    /\ ret.goals[1].size = 2 /\ ret.goals[2].size = 4
    /\ ret.cash_left = 0

\* C4: every suspended symbol gets the size the ledger holds for it, 0 when
\* the ledger has no position, whatever its weight and price, and commits no
\* cash: cash_left is the budget less the cash of the other symbols.
C4_SuspendedHeld ==
    GwoReturned =>
        /\ \A i \in 1..Len(ret.goals) :
              GwoSuspended(ret.goals[i].symbol) =>
                  ret.goals[i].size =
                      IF positions[ret.goals[i].symbol].held
                      THEN positions[ret.goals[i].symbol].curr_size ELSE 0
        /\ ret.cash_left = ret.arg.turnover -
              SumSeq([i \in 1..Len(ret.goals) |->
                         IF GwoSuspended(ret.goals[i].symbol) THEN 0
                         ELSE ret.goals[i].size * 100 * GwoPrice(i)])

\* Both symbols suspended with weights of 0.8 and a budget: A without a
\* position gets 0, B holding 50 gets 50, and the budget is left whole.
C4_Witness ==
    /\ GwoReturned
    /\ GwoSuspended("A") /\ GwoSuspended("B")
    /\ ~positions["A"].held /\ positions["B"].held
    /\ ret.arg.weights_dic = WeightMap([s \in UniverseSet |-> 8], 10, {})
    /\ ret.arg.turnover = 10000
    /\ ret.goals = <<[symbol |-> "A", size |-> 0], [symbol |-> "B", size |-> 50]>>
    /\ ret.cash_left = 10000

----------------------------------------------------------------------------
\* Helpers of the properties of the weights.
SuspItems(suspensions) == {suspensions.items[k].val : k \in 1..Len(suspensions.items)}

\* The sum of |v + 2 |min|| over the raw weights, in units of 1 / raw.den.
ShiftedOf(raw, s) ==
    raw.num[s] + 2 * Abs(CHOOSE m \in {raw.num[t] : t \in UniverseSet} :
                            \A t \in UniverseSet : m <= raw.num[t])
ShiftedSum(raw) == SumSeq([i \in 1..Len(Universe) |-> Abs(ShiftedOf(raw, Universe[i]))])
WeightsL1 == SumSeq([i \in 1..Len(Universe) |-> Abs(weights.num[Universe[i]])])

\* C2 as stated: after re_weight_suspension on a non-empty list that leaves
\* a universe symbol tradable, every suspended symbol has the weight 0 and
\* the sum of |weight| is 1, or 0 when nothing is left.
C2_SuspendedZeroed ==
    (/\ ret.op = "re_weight_suspension" /\ ret.raised = ""
     /\ ~ret.arg.is_none /\ Len(ret.arg.items) > 0
     /\ UniverseSet \ SuspItems(ret.arg) # {}
     /\ weights.nan = {})
        => /\ \A s \in UniverseSet \cap SuspItems(ret.arg) : weights.num[s] = 0
           /\ WeightsL1 = weights.den \/ WeightsL1 = 0

\* C5 as stated: after portfolio_construction on NaN-free raw weights every
\* weight is >= 0 and the sum of |weight| is 1 within 1e-6, unless the sum of
\* the shifted weights is <= 1e-8, and then every weight is 0.
C5_UnitNormOrZero ==
    (ret.op = "portfolio_construction" /\ ret.arg.nan = {})
        => /\ \A s \in UniverseSet : weights.num[s] >= 0
           /\ IF ShiftedSum(ret.arg) <= ret.arg.den \div Eps8Inv
              THEN \A s \in UniverseSet : weights.num[s] = 0
              ELSE Abs(WeightsL1 - weights.den) <= weights.den \div 1000000

\* C5 as amended: ... unless the sum of the shifted weights is <= 1e-8, and
\* then the weights are the shifted weights, undivided: each is >= 0 and
\* <= 1e-8, and they need not be 0.
C5_UnitNormOrShifted ==
    (ret.op = "portfolio_construction" /\ ret.arg.nan = {})
        => /\ \A s \in UniverseSet : weights.num[s] >= 0
           /\ weights.den > 0
           /\ IF ShiftedSum(ret.arg) <= ret.arg.den \div Eps8Inv
              THEN /\ weights.den = ret.arg.den
                   /\ \A s \in UniverseSet :
                         /\ weights.num[s] = ShiftedOf(ret.arg, s)
                         /\ weights.num[s] <= weights.den \div Eps8Inv
              ELSE Abs(WeightsL1 - weights.den) <= weights.den \div 1000000

\* Raw weights whose shifted sum is 1e-8 at most leave a weight that is not
\* 0; and raw weights with a negative minimum were divided to unit norm.
C5_Witness ==
    /\ ret.op = "portfolio_construction" /\ ret.arg.nan = {}
    /\ ShiftedSum(ret.arg) <= ret.arg.den \div Eps8Inv
    /\ \E s \in UniverseSet : weights.num[s] > 0
    /\ \E s \in UniverseSet : ret.arg.num[s] < 0

----------------------------------------------------------------------------
\* C11 as stated: a re_weight_suspension step on stored weights with a
\* non-empty list raises, leaving the weights as they were, when the list
\* contains every universe symbol, and does not raise when the list leaves a
\* universe symbol out, whatever its length, duplicates or other members.
C11_FailsIffAllSuspended ==
    [][(/\ ret'.op = "re_weight_suspension"
        /\ ~ret'.arg.is_none /\ Len(ret'.arg.items) > 0
        /\ weights # WeightsNone)
          => IF UniverseSet \subseteq SuspItems(ret'.arg)
             THEN ret'.raised # "" /\ weights' = weights
             ELSE ret'.raised = ""]_vars

\* C12 as stated: a re_balance_plan_after_open step on stored weights with
\* every universe symbol in the suspended list raises the all-suspended
\* error and leaves cash, weights, goal_positions and market_value_list as
\* they were, and no order reaches the ledger or the gateway.
C12_AllSuspendedPropagates ==
    [][(/\ ret'.op = "re_balance_plan_after_open"
        /\ ~ret'.arg.suspensions.is_none
        /\ UniverseSet \subseteq SuspItems(ret'.arg.suspensions)
        /\ weights # WeightsNone)
          => /\ ret'.raised = "ValueError"
             /\ UNCHANGED <<cash, weights, goal_positions, market_value_list>>
             /\ UNCHANGED <<pm_orders, calls, seq_gen, task_id_map>>]_vars

\* C13 as stated, for the steps whose predecessor decides the phase: a
\* re_balance_plan_before_open right after a re_balance_plan_before_open that
\* returned fails, and a re_balance_plan_after_open right after on_new_day
\* or after the configuration fails and changes neither goal_positions nor
\* cash.
C13_PhaseOrder ==
    [][/\ (/\ ret.op = "re_balance_plan_before_open" /\ ret.raised = ""
           /\ ret'.op = "re_balance_plan_before_open")
             => ret'.raised # ""
       /\ (/\ ret.op \in {"on_new_day", "init_from_config"}
           /\ ret'.op = "re_balance_plan_after_open")
             => /\ ret'.raised # ""
                /\ UNCHANGED <<goal_positions, cash>>]_vars

C15_RejectedAlgo ==
    [][/\ (ret'.op = "place_order" /\ bool(ret'.arg[2]))
             => /\ ret'.raised = "NotImplementedError"
                /\ UNCHANGED <<seq_gen, issued, task_id_map, pm_orders, trade_date>>
                /\ calls' = <<>>
       /\ (/\ ret.op = "place_order" /\ ret.raised # ""
           /\ ret'.op = "place_order" /\ ret'.raised = "")
             => /\ LastOf(pm_orders').task_id
                      = _get_next_num(trade_date, Len(IssuedOf("task_id")) + 1)
                /\ LastOf(pm_orders').entrust_no
                      = _get_next_num(trade_date, Len(pm_orders) + 1)
                /\ Len(pm_orders') = Len(pm_orders) + 1]_vars

\* A rejected place_order after an order was placed, with ids left to mint.
C15_Witness ==
    /\ ret.op = "place_order" /\ ret.raised = "NotImplementedError"
    /\ bool(ret.arg[2])
    /\ Len(pm_orders) = 1
    /\ seq_gen["task_id"] = 1 /\ seq_gen["entrust_no"] = 1

NanReplaced(raw) ==
    WeightMap([s \in DOMAIN raw.num |-> IF s \in raw.nan THEN 0 ELSE raw.num[s]],
              raw.den, {})

\* C16 as stated: after portfolio_construction on raw weights with a NaN no
\* stored weight is NaN, and the stored weights are the normalized weights
\* of the raw weights with the NaN replaced by 0.
C16_NanReplacedFirst ==
    (ret.op = "portfolio_construction" /\ ret.arg.nan # {})
        => /\ weights.nan = {}
           /\ \A s \in UniverseSet :
                 weights.num[s] * pc_weights(NanReplaced(ret.arg)).den
                     = pc_weights(NanReplaced(ret.arg)).num[s] * weights.den

----------------------------------------------------------------------------
\* Helpers of the property of goal_portfolio: the size the ledger holds, and
\* the goals of the last call that differ from it.
HeldSize(sec) == IF positions[sec].held THEN positions[sec].curr_size ELSE 0
GpDiffering == {i \in 1..Len(ret.arg.goals) :
                   ret.arg.goals[i].size # HeldSize(ret.arg.goals[i].symbol)}

\* C18: goal_portfolio on one goal per universe symbol registers and submits,
\* under the one task id it mints, one order for every symbol whose goal
\* differs from the size held (0 when not held), a Buy of goal - held when
\* the goal is greater and a Sell of held - goal when it is smaller, in the
\* order of the goals, and no order for a symbol at its goal.
C18_GoalOrders ==
    (ret.op = "goal_portfolio" /\ ret.raised = "")
        => LET goals == ret.arg.goals
               n == Cardinality(GpDiffering)
               stamped == SubSeq(pm_orders, Len(pm_orders) - n + 1, Len(pm_orders))
           IN /\ Len(pm_orders) >= n
              /\ Len(calls) = 2 * n
              /\ \A k \in 1..n :
                    /\ calls[2 * k - 1] = PmAddOrder(stamped[k])
                    /\ calls[2 * k].target = "gateway"
                    /\ calls[2 * k].op = "place_order"
                    /\ calls[2 * k].order = stamped[k]
                    /\ stamped[k].task_id = LastOf(IssuedOf("task_id")).id
              /\ \A j, k \in 1..n : j < k =>
                    \E i1, i2 \in 1..Len(goals) :
                        /\ i1 < i2
                        /\ goals[i1].symbol = stamped[j].symbol
                        /\ goals[i2].symbol = stamped[k].symbol
              /\ \A i \in 1..Len(goals) :
                    LET held == HeldSize(goals[i].symbol)
                        mine == {k \in 1..n : stamped[k].symbol = goals[i].symbol}
                    IN IF goals[i].size = held THEN mine = {}
                       ELSE /\ Cardinality(mine) = 1
                            /\ \A k \in mine :
                                  IF goals[i].size > held
                                  THEN /\ stamped[k].entrust_action = "Buy"
                                       /\ stamped[k].entrust_size = goals[i].size - held
                                  ELSE /\ stamped[k].entrust_action = "Sell"
                                       /\ stamped[k].entrust_size = held - goals[i].size

\* Both symbols held at 50: the goal of 50 for A gives no order and the goal
\* of 0 for B a Sell of 50; and before it a Buy of 20 for a goal of 70.
C18_Witness ==
    /\ ret.op = "goal_portfolio" /\ ret.raised = ""
    /\ positions["A"].held /\ positions["B"].held
    /\ ret.arg.goals[1].size = 50 /\ ret.arg.goals[2].size = 0
    /\ Len(calls) = 2
    /\ LastOf(pm_orders).symbol = "B"
    /\ LastOf(pm_orders).entrust_action = "Sell"
    /\ LastOf(pm_orders).entrust_size = 50
    /\ Len(pm_orders) = 2
    /\ pm_orders[1].entrust_action = "Buy" /\ pm_orders[1].entrust_size = 20

----------------------------------------------------------------------------
\* C19: optimize_mc calls the utility function 5 times, once per candidate;
\* when a candidate has -utility below 1e30 it returns, with an empty
\* message, the candidate of the greatest utility that comes first among the
\* candidates of that utility; otherwise it returns None and a message that
\* is not empty.
C19_FirstBest ==
    (ret.op = "optimize_mc")
        => LET utils == ret.arg.utils
               improving == {i \in 1..5 : -utils[i] < 1}
               best == {i \in 1..5 : \A j \in 1..5 : utils[j] <= utils[i]}
               first == CHOOSE i \in best : \A j \in best : i <= j
           IN /\ ret.evals = 5
              /\ Len(utils) = 5
              /\ IF improving # {}
                 THEN /\ ~ret.min_weights.is_none
                      /\ ret.min_weights.index = first
                      /\ ret.min_weights.weights
                            = WeightMap(ret.arg.weights_mat[first],
                                        ret.arg.weights_mat[first]["A"]
                                            + ret.arg.weights_mat[first]["B"], {})
                      /\ ret.msg = EmptyStr
                 ELSE /\ ret.min_weights.is_none
                      /\ bool(ret.msg)

\* The candidates 2 and 4 share the greatest utility, and the second is
\* returned.
C19_Witness ==
    /\ ret.op = "optimize_mc"
    /\ ret.arg.utils = <<0, 1, 0, 1, -1>>
    /\ ret.min_weights.index = 2
    /\ ret.msg = EmptyStr

----------------------------------------------------------------------------
\* C20 as stated: the task id that place_order or place_batch_order has just
\* returned is one that the lookup of cancel_order finds, for every batch
\* length and every answer of the gateway.  The '0' that place_order returns
\* for a rejected order is not counted as a task id.
C20_ReturnedTaskKnown ==
    (/\ ret.op \in {"place_order", "place_batch_order"}
     /\ ret.raised = ""
     /\ ret.task_id # <<"0">>)
        => cancel_order_lookup(task_id_map, ret.task_id).known

----------------------------------------------------------------------------
\* Helpers of the property of the budget: the weights of the last call are
\* not negative and sum to 1 at most, and the budget is not negative.
GwoLongOnly ==
    /\ ret.arg.weights_dic.nan = {}
    /\ \A s \in UniverseSet : ret.arg.weights_dic.num[s] >= 0
    /\ SumSeq([i \in 1..Len(Universe) |-> ret.arg.weights_dic.num[Universe[i]]])
          <= ret.arg.weights_dic.den
    /\ ret.arg.turnover >= 0
GwoTradedPrices ==
    SumSeq([i \in 1..Len(ret.goals) |-> IF GwoTraded(i) THEN GwoPrice(i) ELSE 0])

\* C21 as stated: for weights that are not negative and sum to 1 at most, a
\* budget that is not negative and positive prices, cash_left is not
\* negative.
C21_CashLeftNonNegative ==
    (GwoReturned /\ GwoLongOnly) => ret.cash_left >= 0

\* C21 as amended: under the same conditions cash_left is at most the budget
\* and at least -50 * price summed over the traded symbols: every traded
\* symbol can overshoot its share of the budget by half a lot.
C21_CashLeftWithinHalfLots ==
    (GwoReturned /\ GwoLongOnly)
        => /\ ret.cash_left <= ret.arg.turnover
           /\ ret.cash_left >= -(50 * GwoTradedPrices)

\* Weights of 0.5 each, a budget of 1500 and prices of 5: 1.5 lots round to
\* 2 for both symbols, which commits 2000.
C21_Witness ==
    /\ GwoReturned /\ GwoLongOnly
    /\ ret.arg.turnover = 1500
    /\ \A i \in 1..Len(ret.goals) :
          GwoTraded(i) /\ GwoPrice(i) = 5 /\ ret.goals[i].size = 2
    /\ ret.cash_left = -500

----------------------------------------------------------------------------
\* Helpers of the property of the identifiers over days.

\* int(s) of a string of digits: the inverse of str.
RECURSIVE IdValue(_)
IdValue(s) ==
    IF Len(s) = 0 THEN 0
    ELSE IdValue(SubSeq(s, 1, Len(s) - 1)) * 10
           + ((CHOOSE d \in 1..Len(DigitChars) : DigitChars[d] = s[Len(s)]) - 1)

\* The trade dates of the identifiers minted so far never decrease.
DatesNeverDecrease ==
    \A i \in 1..(Len(issued) - 1) : issued[i].date <= issued[i + 1].date

\* C22: no handler starts a counter again, whatever on_new_day was given: the
\* counter of a key is the one of its last id, and each id counts one more
\* than the one before. While the trade dates never decrease, the ids minted
\* for one key, read as numbers, are strictly increasing in the order they
\* were minted, so no two ids of a key are the same string, on one day or
\* across days, also for counters beyond 9999.
C22_IdsIncreaseOverDays ==
    /\ \A key \in Keys :
          /\ Len(IssuedOf(key)) > 0 => seq_gen[key] = LastOf(IssuedOf(key)).seq
          /\ \A i \in 1..(Len(IssuedOf(key)) - 1) :
                IssuedOf(key)[i + 1].seq = IssuedOf(key)[i].seq + 1
    /\ DatesNeverDecrease
          => \A key \in Keys :
                /\ \A i \in 1..(Len(IssuedOf(key)) - 1) :
                      IdValue(IssuedOf(key)[i].id) < IdValue(IssuedOf(key)[i + 1].id)
                /\ \A i, j \in 1..Len(IssuedOf(key)) :
                      i < j => IssuedOf(key)[i].id # IssuedOf(key)[j].id

\* A task id minted with counter 9999 on date 0 and, after on_new_day(1),
\* task ids minted with counters 10000 and 10001 on date 1.
C22_Witness ==
    /\ DatesNeverDecrease
    /\ \E i \in 1..(Len(IssuedOf("task_id")) - 2) :
          /\ IssuedOf("task_id")[i].date = 0
          /\ IssuedOf("task_id")[i].seq = IdBase - 1
          /\ IssuedOf("task_id")[i + 1].date = 1
          /\ IssuedOf("task_id")[i + 2].date = 1
          /\ IssuedOf("task_id")[i + 2].seq = IdBase + 1
    /\ Len(IssuedOf("entrust_no")) > 0
====
